---------------------------- MODULE Spec2Model ----------------------------
(***************************************************************************)
(* Model of the pulse-converter worker pool (worker/pool.go): N worker     *)
(* loops claim serialized conversion jobs from the Redis list "pending"    *)
(* with BRPOPLPUSH into "processing", run one attempt (download, convert,  *)
(* upload), and settle the job; a failed attempt is retried through a      *)
(* time.AfterFunc timer or moved to the "failed" list; a periodic sweep    *)
(* re-queues entries of "processing" whose createdAt is older than five    *)
(* minutes.  The three Redis lists and the file_conversions table outlive  *)
(* the process; the timers, the workers' locals and the sweep's snapshot   *)
(* do not.  main cancels the loops' context on a signal; calls made with   *)
(* the cancelled context fail, and so do the table's statements while the  *)
(* database is down.                                                       *)
(*                                                                         *)
(* Time is in whole seconds.  The model looks at a window [0, MaxTime] of  *)
(* a long-running deployment: jobs may have been enqueued before the       *)
(* window opens (a negative createdAt).                                    *)
(***************************************************************************)
EXTENDS Integers, Sequences, FiniteSets, Bags, TLC

VARIABLES
    pending,      \* Redis list cfg.PendingQueue, head first
    processing,   \* Redis list cfg.ProcessingQueue, head first
    failed,       \* Redis list cfg.FailedQueue, head first
    timers,       \* bag of pending time.AfterFunc callbacks (process memory)
    db,           \* file_conversions rows, by conversion id
    statusHash,   \* Redis hashes conversion:status:<id>, by conversion id
    pc,           \* each worker's position in StartWorker
    result,       \* each worker's claimed entry (the local `result`/jobJSON)
    now,          \* wall clock, seconds
    sweepAt,      \* when the recovery ticker fires next
    snap,         \* the part of the sweep's LRANGE snapshot not yet visited
    crashes,      \* process crashes so far
    initial,      \* history: the pending list the producer left
    requeued,     \* history: every entry LPUSHed onto pending, in order
    inlineRetried,\* history: entries whose attempt failed inline with retries left
    inlineExhausted, \* history: entries whose attempt failed inline with none left
    attempts,     \* history: processJob calls, by conversion id
    claimCount,   \* history: successful BRPOPLPUSH calls
    bk,           \* BackoffSpec: the retry number fed to the delay computation
    bdelay,       \* BackoffSpec: the delay computed for bk
    ctxDone,      \* main's cancel() has been called: ctx is cancelled
    dbDown,       \* the database refuses statements
    recoveryExited \* RecoveryLoop has returned

queueVars == <<pending, processing, failed>>
procVars  == <<timers, pc, result, sweepAt, snap, crashes>>
storeVars == <<db, statusHash>>
histVars  == <<initial, requeued, inlineRetried, inlineExhausted, attempts,
               claimCount>>
pureVars  == <<bk, bdelay>>
ctlVars   == <<ctxDone, dbDown, recoveryExited>>
vars == <<queueVars, procVars, storeVars, histVars, now, pureVars, ctlVars>>

---------------------------------------------------------------------------
(* Bounds of the model. *)

MaxTime    == 3     \* the window's length, seconds
MaxRetry   == 1     \* largest maxRetries a producer entry carries
MaxCrashes == 1     \* process crashes in the window
MaxK       == 70    \* BackoffSpec: largest retry number tried
ScenarioRetries == 3   \* ScenarioSpec: largest maxRetries of the job
ScenarioMaxTime == 15  \* ScenarioSpec: the window's length, seconds

Workers    == {1, 2}
JobIds     == {1, 2}

---------------------------------------------------------------------------
(* Program constants. *)

StaleAfter   == 300   \* 5*time.Minute, the staleness threshold
SweepPeriod  == 300   \* 5*time.Minute, the recovery ticker
BackoffCap   == 30    \* 30*time.Second

\* createdAt of the producer's entries: enqueued just now, or waiting for
\* more than StaleAfter seconds when the window opens.
CreatedAts == {0, 0 - 301}

---------------------------------------------------------------------------
(* Queue entries.  An entry is the serialized job itself (a JSON string);  *)
(* it is modelled by what encoding/json reads from it: the fields of       *)
(* models.ConversionJob, and `form`, which tells the producer's bytes      *)
(* ("producer": Laravel's json_encode) from the bytes json.Marshal writes  *)
(* ("go").  Two entries are the same Redis value iff they are equal here.  *)
(* `payload` stands for the fields the worker never changes (file ids,     *)
(* S3 paths, extension, timeout).                                          *)

Payload(id) == <<"payload", id>>

ConversionJob(id, rc, mx, created) ==
    [ConversionID |-> id, RetryCount |-> rc, MaxRetries |-> mx,
     CreatedAt |-> created, Payload |-> Payload(id)]

Garbage ==
    [kind |-> "garbage", form |-> "producer", id |-> 0, retryCount |-> 0,
     maxRetries |-> 0, createdAt |-> 0, payload |-> <<"payload", 0>>]

ProducerEntry(id, mx, created) ==
    [kind |-> "json", form |-> "producer", id |-> id, retryCount |-> 0,
     maxRetries |-> mx, createdAt |-> created, payload |-> Payload(id)]

\* time.Time{}: the createdAt of a job decoded from an entry without one;
\* older than any threshold
ZeroTime == 0 - 1000

\* a JSON object that carries conversionId and nothing else
PartialEntry(id) ==
    [kind |-> "json", form |-> "partial", id |-> id, retryCount |-> 0,
     maxRetries |-> 0, createdAt |-> 0, payload |-> <<"payload", 0>>]

\* what a worker's `result` holds when it holds no entry: nothing yet, or
\* redis.Nil (BRPOPLPUSH timed out, no job available)
Unset == [Garbage EXCEPT !.kind = "unset"]
Nil   == [Garbage EXCEPT !.kind = "redis.Nil"]

\* json.Unmarshal([]byte(entry), &job): an entry that is not a JSON object
\* is an error; a field the object does not carry keeps its zero value
Unmarshal(e) ==
    IF e.kind = "garbage"
    THEN [ok |-> FALSE, job |-> ConversionJob(0, 0, 0, 0)]
    ELSE IF e.form = "partial"
    THEN [ok |-> TRUE,
          job |-> [ConversionID |-> e.id, RetryCount |-> 0, MaxRetries |-> 0,
                   CreatedAt |-> ZeroTime, Payload |-> <<"payload", 0>>]]
    ELSE [ok |-> TRUE,
          job |-> [ConversionID |-> e.id, RetryCount |-> e.retryCount,
                   MaxRetries |-> e.maxRetries, CreatedAt |-> e.createdAt,
                   Payload |-> e.payload]]

\* json.Marshal(job)
Marshal(job) ==
    [kind |-> "json", form |-> "go", id |-> job.ConversionID,
     retryCount |-> job.RetryCount, maxRetries |-> job.MaxRetries,
     createdAt |-> job.CreatedAt, payload |-> job.Payload]

\* job.RetryCount++
BumpRetry(job) == [job EXCEPT !.RetryCount = job.RetryCount + 1]

---------------------------------------------------------------------------
(* Redis list commands. *)

RECURSIVE RemoveFirst(_, _)
RemoveFirst(list, v) ==
    IF list = <<>> THEN <<>>
    ELSE IF Head(list) = v THEN Tail(list)
    ELSE <<Head(list)>> \o RemoveFirst(Tail(list), v)

\* LREM list 1 v: removes the first occurrence of v, from the head
LRem(list, v) == RemoveFirst(list, v)

\* LPUSH list v
LPush(list, v) == <<v>> \o list

\* the element RPOP takes: the tail
Tail1(list) == list[Len(list)]

\* the list RPOP leaves
Front(list) == SubSeq(list, 1, Len(list) - 1)

Count(list, v) == Cardinality({i \in DOMAIN list : list[i] = v})

Elems(list) == {list[i] : i \in DOMAIN list}

---------------------------------------------------------------------------
(* Calls made with the cancellable ctx.  A go-redis command or a           *)
(* database/sql statement started with a cancelled context returns         *)
(* ctx.Err() without reaching the server; a statement also fails while the *)
(* database is down.  The callers log or drop the error.                   *)

\* a Redis command called with ctx: the value it leaves, given the old one
Cmd(old, new) == IF ctxDone THEN old ELSE new

\* a DatabaseService call with ctx
Exec(old, new) == IF ctxDone \/ dbDown THEN old ELSE new

---------------------------------------------------------------------------
(* The retry delay of handleJobFailure:                                    *)
(*   delay := time.Duration(math.Pow(2, float64(job.RetryCount))) *        *)
(*            time.Second                                                  *)
(*   if delay > 30*time.Second { delay = 30 * time.Second }                *)
(* time.Duration is an int64 of nanoseconds and the product wraps modulo   *)
(* 2^64.  time.Second = 10^9 = 5^9 * 2^9, so the product is 5^9 shifted    *)
(* left by k+9 bits and cut to 64 bits; the operators below compute that   *)
(* value exactly without leaving 32-bit arithmetic.                        *)

FiveToNine == 1953125        \* 5^9, the odd part of time.Second; below 2^21

NegativeDelay == 0 - 1       \* stands for every negative duration

RECURSIVE Halve(_, _)
Halve(c, k) == IF k = 0 \/ c = 0 THEN c ELSE Halve(c \div 2, k - 1)

\* bit 63 of the wrapped product: the int64 is negative
WrapsNegative(k) ==
    LET top == 63 - (k + 9)
    IN  /\ top >= 0
        /\ top < 21
        /\ (FiveToNine \div (2 ^ top)) % 2 = 1

\* the bits of 5^9 that stay below bit 63 after the shift
KeptMantissa(k) ==
    LET top == 63 - (k + 9)
    IN  IF top >= 21 THEN FiveToNine ELSE FiveToNine % (2 ^ top)

\* the delay in seconds for retry number k <= 62 (2^k is an exact int64)
DelaySeconds(k) ==
    IF k + 9 >= 64 THEN 0
    ELSE IF WrapsNegative(k) THEN NegativeDelay
    ELSE LET m == KeptMantissa(k)
         IN  IF m > Halve(BackoffCap * FiveToNine, k)
             THEN BackoffCap
             ELSE (m * (2 ^ k)) \div FiveToNine

\* For k >= 63 the conversion of 2^k from float64 to int64 is out of range
\* and implementation-specific: amd64 yields MinInt64 (the product wraps to
\* 0), arm64 saturates at MaxInt64 (the product wraps to -10^9 ns).
BackoffOutcomes(k) ==
    IF k <= 62 THEN {DelaySeconds(k)} ELSE {0, NegativeDelay}

---------------------------------------------------------------------------
(* The file_conversions table (services/database.go).  An UPDATE of an id  *)
(* that has no row changes nothing.                                        *)

NoOutput == <<>>
OutputPath(job) == <<"output", job.ConversionID>>

InitialRow ==
    [status |-> "pending", retry_count |-> 0, error_message |-> "",
     output_s3_path |-> NoOutput]

UpdateConversionStatus(d, id, status, outputPath) ==
    IF id \notin DOMAIN d THEN d
    ELSE [d EXCEPT ![id].status = status,
                   ![id].output_s3_path =
                       IF status = "completed" THEN outputPath ELSE @]

UpdateConversionError(d, id, errorMsg) ==
    IF id \notin DOMAIN d THEN d
    ELSE [d EXCEPT ![id].error_message = errorMsg]

IncrementRetryCount(d, id) ==
    IF id \notin DOMAIN d THEN d
    ELSE [d EXCEPT ![id].retry_count = @ + 1]

\* HSET conversion:status:<id> status ...
HSetStatus(h, id, status) ==
    IF id \notin DOMAIN h THEN h ELSE [h EXCEPT ![id] = status]

FailureReasons ==
    {"S3 download failed", "Office conversion failed", "S3 upload failed"}

StaleMessage == "Job timeout - exceeded 5 minutes"

---------------------------------------------------------------------------
(* StartWorker: the claim. *)

\* fault variant: the tail is read and pushed but not popped
BRPopLPush_NoPop(src, dst) ==
    [entry |-> Tail1(src), src |-> src, dst |-> LPush(dst, Tail1(src))]

\* BRPOPLPUSH src dst: one indivisible Redis command
BRPopLPush(src, dst) ==
    [entry |-> Tail1(src), src |-> Front(src), dst |-> LPush(dst, Tail1(src))]

Claim(w) ==
    /\ pc[w] = "claim"
    /\ ~ctxDone
    /\ pending # <<>>
    /\ LET r == BRPopLPush(pending, processing)
       IN  /\ pending' = r.src
           /\ processing' = r.dst
           /\ result' = [result EXCEPT ![w] = r.entry]
    /\ pc' = [pc EXCEPT ![w] = "parse"]
    /\ claimCount' = claimCount + 1
    /\ UNCHANGED <<failed, timers, sweepAt, snap, crashes, storeVars, now,
                   initial, requeued, inlineRetried, inlineExhausted, attempts,
                   pureVars, ctlVars>>

\* err == redis.Nil: the wait elapsed with no job; the loop continues
ClaimNone(w) ==
    /\ pc[w] = "claim"
    /\ ~ctxDone
    /\ pending = <<>>
    /\ result' = [result EXCEPT ![w] = Nil]
    /\ UNCHANGED <<queueVars, timers, pc, sweepAt, snap, crashes, storeVars,
                   now, histVars, pureVars, ctlVars>>

\* fault variant: the LREM is forgotten
DecodeFailure_Forgotten(procList, entry) == procList

\* json.Unmarshal failed: LREM the entry from processing, continue
DecodeFailure(procList, entry) == LRem(procList, entry)

DecodeFail(w) ==
    /\ pc[w] = "parse"
    /\ ~Unmarshal(result[w]).ok
    /\ processing' = Cmd(processing, DecodeFailure(processing, result[w]))
    /\ pc' = [pc EXCEPT ![w] = "claim"]
    /\ result' = [result EXCEPT ![w] = Unset]
    /\ UNCHANGED <<pending, failed, timers, sweepAt, snap, crashes,
                   storeVars, now, histVars, pureVars, ctlVars>>

---------------------------------------------------------------------------
(* processJob and handleJobFailure. *)

\* fault variant: a failed status write abandons the job
StartJob_AbortsOnStoreError(w) ==
    /\ pc[w] = "parse"
    /\ Unmarshal(result[w]).ok
    /\ LET job == Unmarshal(result[w]).job
       IN  /\ db' = Exec(db, UpdateConversionStatus(db, job.ConversionID,
                                                    "processing", NoOutput))
           /\ attempts' = IF job.ConversionID \in DOMAIN attempts
                          THEN [attempts EXCEPT ![job.ConversionID] = @ + 1]
                          ELSE attempts
    /\ pc' = [pc EXCEPT ![w] = IF dbDown THEN "claim" ELSE "attempt"]
    /\ UNCHANGED <<queueVars, timers, result, sweepAt, snap, crashes,
                   statusHash, now, initial, requeued, inlineRetried,
                   inlineExhausted, claimCount, pureVars, ctlVars>>

\* processJob, up to the first I/O: status "processing"
StartJob(w) ==
    /\ pc[w] = "parse"
    /\ Unmarshal(result[w]).ok
    /\ LET job == Unmarshal(result[w]).job
       IN  /\ db' = Exec(db, UpdateConversionStatus(db, job.ConversionID,
                                                    "processing", NoOutput))
           /\ attempts' = IF job.ConversionID \in DOMAIN attempts
                          THEN [attempts EXCEPT ![job.ConversionID] = @ + 1]
                          ELSE attempts
    /\ pc' = [pc EXCEPT ![w] = "attempt"]
    /\ UNCHANGED <<queueVars, timers, result, sweepAt, snap, crashes,
                   statusHash, now, initial, requeued, inlineRetried,
                   inlineExhausted, claimCount, pureVars, ctlVars>>

\* processJob, download, convert and upload all succeeded; with job.Timeout
\* absent the attempt's deadline is already over and its first step fails
Succeed(w) ==
    /\ pc[w] = "attempt"
    /\ result[w].form # "partial"
    /\ LET job == Unmarshal(result[w]).job
       IN  /\ db' = Exec(db, UpdateConversionStatus(db, job.ConversionID,
                                                    "completed",
                                                    OutputPath(job)))
           /\ statusHash' = Cmd(statusHash,
                                HSetStatus(statusHash, job.ConversionID,
                                           "completed"))
    /\ processing' = Cmd(processing, LRem(processing, result[w]))
    /\ pc' = [pc EXCEPT ![w] = "claim"]
    /\ result' = [result EXCEPT ![w] = Unset]
    /\ UNCHANGED <<pending, failed, timers, sweepAt, snap, crashes, now,
                   histVars, pureVars, ctlVars>>

\* fault variant: an off-by-one in the comparison
ShouldRetry_OffByOne(job) == job.RetryCount <= job.MaxRetries

\* the condition of the retry branch
ShouldRetry(job) == job.RetryCount < job.MaxRetries

\* the entry the retry branch schedules: job.RetryCount++; json.Marshal(job)
RetryEntry(job) == Marshal(BumpRetry(job))

\* time.AfterFunc(delay, func() { LPUSH pending newJobJSON })
Timer(entry, delay) == [entry |-> entry, due |-> now + delay]

\* fault variant: the failed list gets the job serialised again
HandleJobFailure_Reserialised(job, jobJSON, errorMsg, delay) ==
    /\ processing' = Cmd(processing, LRem(processing, jobJSON))
    /\ IF ShouldRetry(job)
       THEN /\ timers' = timers (+) SetToBag({Timer(RetryEntry(job), delay)})
            /\ db' = Exec(db, IncrementRetryCount(db, job.ConversionID))
            /\ inlineRetried' = inlineRetried \cup {jobJSON}
            /\ UNCHANGED <<failed, statusHash, inlineExhausted>>
       ELSE /\ failed' = Cmd(failed, LPush(failed, Marshal(job)))
            /\ db' = Exec(db, UpdateConversionError(
                                  UpdateConversionStatus(
                                      IncrementRetryCount(db, job.ConversionID),
                                      job.ConversionID, "failed", NoOutput),
                                  job.ConversionID, errorMsg))
            /\ statusHash' = Cmd(statusHash,
                                 HSetStatus(statusHash, job.ConversionID,
                                            "failed"))
            /\ inlineExhausted' = inlineExhausted \cup {jobJSON}
            /\ UNCHANGED <<timers, inlineRetried>>

\* handleJobFailure(ctx, workerID, job, jobJSON, errorMsg); delay is the
\* outcome of the delay computation
HandleJobFailure(job, jobJSON, errorMsg, delay) ==
    /\ processing' = Cmd(processing, LRem(processing, jobJSON))
    /\ IF ShouldRetry(job)
       THEN /\ timers' = timers (+) SetToBag({Timer(RetryEntry(job), delay)})
            /\ db' = Exec(db, IncrementRetryCount(db, job.ConversionID))
            /\ inlineRetried' = inlineRetried \cup {jobJSON}
            /\ UNCHANGED <<failed, statusHash, inlineExhausted>>
       ELSE /\ failed' = Cmd(failed, LPush(failed, jobJSON))
            /\ db' = Exec(db, UpdateConversionError(
                                  UpdateConversionStatus(
                                      IncrementRetryCount(db, job.ConversionID),
                                      job.ConversionID, "failed", NoOutput),
                                  job.ConversionID, errorMsg))
            /\ statusHash' = Cmd(statusHash,
                                 HSetStatus(statusHash, job.ConversionID,
                                            "failed"))
            /\ inlineExhausted' = inlineExhausted \cup {jobJSON}
            /\ UNCHANGED <<timers, inlineRetried>>

\* fault variant: the worker waits out the delay itself
FailAttempt_Sleeps(w) ==
    /\ pc[w] = "attempt"
    /\ \E reason \in FailureReasons :
         LET job == Unmarshal(result[w]).job
         IN  \E delay \in BackoffOutcomes(job.RetryCount + 1) :
                 HandleJobFailure(job, result[w], reason, delay)
    /\ pc' = [pc EXCEPT ![w] = IF ShouldRetry(Unmarshal(result[w]).job)
                               THEN "sleep" ELSE "claim"]
    /\ result' = [result EXCEPT ![w] = Unset]
    /\ UNCHANGED <<pending, sweepAt, snap, crashes, now, initial, requeued,
                   attempts, claimCount, pureVars, ctlVars>>

\* processJob, a download, convert or upload error (the attempt's deadline
\* expiring is one of them)
FailAttempt(w) ==
    /\ pc[w] = "attempt"
    /\ \E reason \in FailureReasons :
         LET job == Unmarshal(result[w]).job
         IN  \E delay \in BackoffOutcomes(job.RetryCount + 1) :
                 HandleJobFailure(job, result[w], reason, delay)
    /\ pc' = [pc EXCEPT ![w] = "claim"]
    /\ result' = [result EXCEPT ![w] = Unset]
    /\ UNCHANGED <<pending, sweepAt, snap, crashes, now, initial, requeued,
                   attempts, claimCount, pureVars, ctlVars>>

\* the time.AfterFunc callback: LPUSH pending newJobJSON
TimerFire ==
    \E t \in BagToSet(timers) :
        /\ now >= t.due
        /\ pending' = LPush(pending, t.entry)
        /\ timers' = timers (-) SetToBag({t})
        /\ requeued' = Append(requeued, t.entry)
        /\ UNCHANGED <<processing, failed, pc, result, sweepAt, snap, crashes,
                       storeVars, now, initial, inlineRetried, inlineExhausted,
                       attempts, claimCount, pureVars, ctlVars>>

---------------------------------------------------------------------------
(* RecoveryLoop and recoverStaleJobs. *)

\* time.Since(job.CreatedAt) > 5*time.Minute
IsStale(job) == now - job.CreatedAt > StaleAfter

\* <-ticker.C, then LRANGE processing 0 -1
SweepStart ==
    /\ ~recoveryExited
    /\ snap = <<>>
    /\ now >= sweepAt
    /\ snap' = Cmd(<<>>, processing)
    /\ sweepAt' = sweepAt + SweepPeriod
    /\ UNCHANGED <<queueVars, timers, pc, result, crashes, storeVars, now,
                   histVars, pureVars, ctlVars>>

\* fault variant: the retry branch pushes the entry as it was read
RecoverEntry_StaleBytes(job, jobJSON) ==
    /\ processing' = LRem(processing, jobJSON)
    /\ IF ShouldRetry(job)
       THEN /\ pending' = LPush(pending, jobJSON)
            /\ db' = IncrementRetryCount(db, job.ConversionID)
            /\ requeued' = Append(requeued, jobJSON)
            /\ UNCHANGED failed
       ELSE /\ failed' = LPush(failed, jobJSON)
            /\ db' = UpdateConversionError(
                         UpdateConversionStatus(db, job.ConversionID,
                                                "failed", NoOutput),
                         job.ConversionID, StaleMessage)
            /\ UNCHANGED <<pending, requeued>>

\* fault variant: the status failed is written on the retry branch too
RecoverEntry_FailedStatusOnRetry(job, jobJSON) ==
    /\ processing' = Cmd(processing, LRem(processing, jobJSON))
    /\ IF ShouldRetry(job)
       THEN /\ pending' = Cmd(pending, LPush(pending, RetryEntry(job)))
            /\ db' = Exec(db, UpdateConversionStatus(
                                  IncrementRetryCount(db, job.ConversionID),
                                  job.ConversionID, "failed", NoOutput))
            /\ requeued' = Cmd(requeued, Append(requeued, RetryEntry(job)))
            /\ UNCHANGED failed
       ELSE /\ failed' = Cmd(failed, LPush(failed, jobJSON))
            /\ db' = Exec(db, UpdateConversionError(
                                  UpdateConversionStatus(db, job.ConversionID,
                                                         "failed", NoOutput),
                                  job.ConversionID, StaleMessage))
            /\ UNCHANGED <<pending, requeued>>

\* the body of the loop for a stale entry
RecoverEntry(job, jobJSON) ==
    /\ processing' = Cmd(processing, LRem(processing, jobJSON))
    /\ IF ShouldRetry(job)
       THEN /\ pending' = Cmd(pending, LPush(pending, RetryEntry(job)))
            /\ db' = Exec(db, IncrementRetryCount(db, job.ConversionID))
            /\ requeued' = Cmd(requeued, Append(requeued, RetryEntry(job)))
            /\ UNCHANGED failed
       ELSE /\ failed' = Cmd(failed, LPush(failed, jobJSON))
            /\ db' = Exec(db, UpdateConversionError(
                                  UpdateConversionStatus(db, job.ConversionID,
                                                         "failed", NoOutput),
                                  job.ConversionID, StaleMessage))
            /\ UNCHANGED <<pending, requeued>>

\* one iteration of `for _, jobJSON := range jobs`
SweepEntry ==
    /\ snap # <<>>
    /\ snap' = Tail(snap)
    /\ LET jobJSON == Head(snap)
           u == Unmarshal(jobJSON)
       IN  IF u.ok /\ IsStale(u.job)
           THEN RecoverEntry(u.job, jobJSON)
           ELSE UNCHANGED <<queueVars, db, requeued>>
    /\ UNCHANGED <<timers, pc, result, sweepAt, crashes, statusHash, now,
                   initial, inlineRetried, inlineExhausted, attempts, claimCount,
                   pureVars, ctlVars>>

---------------------------------------------------------------------------
(* The environment: time, and the process dying and being started again.  *)

Tick ==
    /\ now < MaxTime
    /\ now' = now + 1
    /\ UNCHANGED <<queueVars, procVars, storeVars, histVars, pureVars, ctlVars>>

\* The process is killed and started again: the Redis lists and the table
\* stay, the timers, the workers' locals and the sweep's snapshot are gone,
\* and main starts a new ticker.
CrashRestart ==
    /\ crashes < MaxCrashes
    /\ crashes' = crashes + 1
    /\ timers' = EmptyBag
    /\ pc' = [w \in Workers |-> "claim"]
    /\ result' = [w \in Workers |-> Unset]
    /\ snap' = <<>>
    /\ sweepAt' = now + SweepPeriod
    /\ ctxDone' = FALSE
    /\ recoveryExited' = FALSE
    /\ UNCHANGED <<queueVars, storeVars, now, histVars, pureVars, dbDown>>

---------------------------------------------------------------------------
(* Shutdown (main.go): a signal makes main call cancel().  A worker that   *)
(* is at its claim is then either at the top of the loop, where the        *)
(* select takes ctx.Done(), or inside BRPopLPush, waiting on the           *)
(* connection.  The wait is bounded by the command's own timeout, not by   *)
(* ctx: the command that is already with the server still moves an entry   *)
(* that arrives, or returns empty-handed.                                  *)

\* <-sigChan; cancel()
Shutdown ==
    /\ ~ctxDone
    /\ ctxDone' = TRUE
    /\ \E inCall \in SUBSET {w \in Workers : pc[w] = "claim"} :
           pc' = [w \in Workers |-> IF w \in inCall THEN "blocked" ELSE pc[w]]
    /\ UNCHANGED <<queueVars, timers, result, sweepAt, snap, crashes,
                   storeVars, now, histVars, pureVars, dbDown, recoveryExited>>

\* the BRPOPLPUSH that was in flight at cancel() is served
InFlightClaim(w) ==
    /\ pc[w] = "blocked"
    /\ pending # <<>>
    /\ LET r == BRPopLPush(pending, processing)
       IN  /\ pending' = r.src
           /\ processing' = r.dst
           /\ result' = [result EXCEPT ![w] = r.entry]
    /\ pc' = [pc EXCEPT ![w] = "parse"]
    /\ claimCount' = claimCount + 1
    /\ UNCHANGED <<failed, timers, sweepAt, snap, crashes, storeVars, now,
                   initial, requeued, inlineRetried, inlineExhausted, attempts,
                   pureVars, ctlVars>>

\* the BRPOPLPUSH that was in flight returns redis.Nil or an error
InFlightReturn(w) ==
    /\ pc[w] = "blocked"
    /\ pc' = [pc EXCEPT ![w] = "claim"]
    /\ result' = [result EXCEPT ![w] = Nil]
    /\ UNCHANGED <<queueVars, timers, sweepAt, snap, crashes, storeVars,
                   now, histVars, pureVars, ctlVars>>

\* StartWorker: case <-ctx.Done(): return
WorkerExit(w) ==
    /\ pc[w] = "claim"
    /\ ctxDone
    /\ pc' = [pc EXCEPT ![w] = "exited"]
    /\ UNCHANGED <<queueVars, timers, result, sweepAt, snap, crashes,
                   storeVars, now, histVars, pureVars, ctlVars>>

\* RecoveryLoop: case <-ctx.Done(): return
RecoveryExit ==
    /\ ctxDone
    /\ ~recoveryExited
    /\ snap = <<>>
    /\ recoveryExited' = TRUE
    /\ UNCHANGED <<queueVars, procVars, storeVars, now, histVars, pureVars,
                   ctxDone, dbDown>>

\* wg.Wait() is over and main returns: the timers go with the process
MainReturns ==
    /\ \A w \in Workers : pc[w] = "exited"
    /\ recoveryExited
    /\ timers # EmptyBag
    /\ timers' = EmptyBag
    /\ UNCHANGED <<queueVars, pc, result, sweepAt, snap, crashes, storeVars,
                   now, histVars, pureVars, ctlVars>>

---------------------------------------------------------------------------
(* The database going away and coming back. *)

StoreDown ==
    /\ ~dbDown
    /\ dbDown' = TRUE
    /\ UNCHANGED <<queueVars, procVars, storeVars, now, histVars, pureVars,
                   ctxDone, recoveryExited>>

StoreUp ==
    /\ dbDown
    /\ dbDown' = FALSE
    /\ UNCHANGED <<queueVars, procVars, storeVars, now, histVars, pureVars,
                   ctxDone, recoveryExited>>

---------------------------------------------------------------------------
(* The specification. *)

\* the entries of the job the model follows: any retry budget, fresh or
\* long queued
FirstJobEntries ==
    {ProducerEntry(1, mx, c) : mx \in 0..MaxRetry, c \in CreatedAts}

\* what may have been enqueued behind it: an undecodable entry, or a fresh
\* job with no retries
SecondEntries == {Garbage, ProducerEntry(2, 0, 0)}

ProducerEntries == FirstJobEntries \cup SecondEntries

\* what the producer left on pending: one entry, or the followed job at
\* the tail (claimed first) with a second entry behind it
InitialQueues ==
    {<<a>> : a \in ProducerEntries}
        \cup {<<b, a>> : a \in FirstJobEntries, b \in SecondEntries}

InitWith(queue) ==
    /\ pending = queue
    /\ processing = <<>>
    /\ failed = <<>>
    /\ timers = EmptyBag
    /\ db = [id \in JobIds |-> InitialRow]
    /\ statusHash = [id \in JobIds |-> "pending"]
    /\ pc = [w \in Workers |-> "claim"]
    /\ result = [w \in Workers |-> Unset]
    /\ now = 0
    /\ sweepAt = 0
    /\ snap = <<>>
    /\ crashes = 0
    /\ initial = queue
    /\ requeued = <<>>
    /\ inlineRetried = {}
    /\ inlineExhausted = {}
    /\ attempts = [id \in JobIds |-> 0]
    /\ claimCount = 0
    /\ ctxDone = FALSE
    /\ dbDown = FALSE
    /\ recoveryExited = FALSE

Init ==
    /\ \E queue \in InitialQueues : InitWith(queue)
    /\ bk = 0
    /\ bdelay = <<>>

WorkerStep(w) ==
    \/ Claim(w)
    \/ ClaimNone(w)
    \/ DecodeFail(w)
    \/ StartJob(w)
    \/ Succeed(w)
    \/ FailAttempt(w)

Next ==
    \/ \E w \in Workers : WorkerStep(w)
    \/ TimerFire
    \/ SweepStart
    \/ SweepEntry
    \/ Tick
    \/ CrashRestart

Spec == Init /\ [][Next]_vars

---------------------------------------------------------------------------
(* The delay computation on its own: the retry number is drawn from        *)
(* 1..MaxK and the computation is applied to it.                           *)

BackoffInit ==
    /\ InitWith(<<>>)
    /\ bk \in 1..MaxK
    /\ bdelay = <<>>

ComputeDelay ==
    /\ bdelay = <<>>
    /\ \E d \in BackoffOutcomes(bk) : bdelay' = <<d>>
    /\ UNCHANGED <<queueVars, procVars, storeVars, histVars, now, bk, ctlVars>>

BackoffNext == ComputeDelay

BackoffSpec == BackoffInit /\ [][BackoffNext]_vars

---------------------------------------------------------------------------
(* The retry scenario: one job with retryCount 0 and maxRetries M, just    *)
(* enqueued or enqueued more than five minutes ago, every attempt of which *)
(* fails; the process does not crash.  The workers, the timers and the     *)
(* sweep run as in Spec.                                                   *)

ScenarioInit ==
    /\ \E m \in 0..ScenarioRetries : \E c \in CreatedAts :
           InitWith(<<ProducerEntry(1, m, c)>>)
    /\ bk = 0
    /\ bdelay = <<>>

ScenarioTick ==
    /\ now < ScenarioMaxTime
    /\ now' = now + 1
    /\ UNCHANGED <<queueVars, procVars, storeVars, histVars, pureVars, ctlVars>>

ScenarioNext ==
    \/ \E w \in Workers : Claim(w)
    \/ \E w \in Workers : ClaimNone(w)
    \/ \E w \in Workers : StartJob(w)
    \/ \E w \in Workers : FailAttempt(w)
    \/ TimerFire
    \/ SweepStart
    \/ SweepEntry
    \/ ScenarioTick

ScenarioSpec == ScenarioInit /\ [][ScenarioNext]_vars

---------------------------------------------------------------------------
(* Entries with missing fields: the entry claimed first carries only its   *)
(* conversionId; behind it there may be an undecodable entry or a complete *)
(* job.  The program runs as in Spec.                                      *)

PartialQueues ==
    {<<PartialEntry(2)>>}
        \cup {<<b, PartialEntry(2)>> : b \in {Garbage} \cup FirstJobEntries}

PartialInit ==
    /\ \E queue \in PartialQueues : InitWith(queue)
    /\ bk = 0
    /\ bdelay = <<>>

PartialSpec == PartialInit /\ [][Next]_vars

---------------------------------------------------------------------------
(* The program with a shutdown request at any moment; the process does not *)
(* crash.                                                                  *)

ShutdownNext ==
    \/ \E w \in Workers : WorkerStep(w)
    \/ \E w \in Workers : InFlightClaim(w)
    \/ \E w \in Workers : InFlightReturn(w)
    \/ \E w \in Workers : WorkerExit(w)
    \/ TimerFire
    \/ SweepStart
    \/ SweepEntry
    \/ RecoveryExit
    \/ Shutdown
    \/ MainReturns
    \/ Tick

ShutdownSpec == Init /\ [][ShutdownNext]_vars

---------------------------------------------------------------------------
(* The program with a database that fails and recovers at any moment; the *)
(* process does not crash.                                                 *)

StoreFaultNext ==
    \/ \E w \in Workers : WorkerStep(w)
    \/ TimerFire
    \/ SweepStart
    \/ SweepEntry
    \/ Tick
    \/ StoreDown
    \/ StoreUp

StoreFaultSpec == Init /\ [][StoreFaultNext]_vars

---------------------------------------------------------------------------
(* Vocabulary of the properties. *)

JobEntries(list) == {e \in Elems(list) : e.kind = "json"}

OnList(list, id) == \E e \in JobEntries(list) : e.id = id

CountId(list, id) ==
    Cardinality({i \in DOMAIN list : list[i].kind = "json" /\ list[i].id = id})

TimerEntries == {t.entry : t \in BagToSet(timers)}

EnqueuedIds == {e.id : e \in JobEntries(initial)}

\* settled: completed and off processing, or on the failed list and failed
Terminal(id) ==
    \/ db[id].status = "completed" /\ ~OnList(processing, id)
    \/ db[id].status = "failed" /\ OnList(failed, id)

\* nothing is left that could move a job: the lists the workers and the
\* sweep read are empty, no retry is scheduled, no attempt is in flight
Quiescent ==
    /\ pending = <<>>
    /\ processing = <<>>
    /\ timers = EmptyBag
    /\ snap = <<>>
    /\ \A w \in Workers : pc[w] = "claim"

\* min(2^k, 30)
MinPow2Cap(k) == IF k < 31 /\ 2 ^ k < BackoffCap THEN 2 ^ k ELSE BackoffCap

---------------------------------------------------------------------------
(* C1: every job left on pending eventually reaches a terminal state,      *)
(* crashes included.  Stated on the states where nothing can move a job    *)
(* any more: in each of them every enqueued job is terminal.               *)
C1_QuiescentJobsAreTerminal ==
    Quiescent => \A id \in EnqueuedIds : Terminal(id)

(* C2: a claim against a non-empty pending list takes exactly the tail     *)
(* entry, puts it on processing and hands it to the claiming worker alone; *)
(* a claim against an empty list observes "no job"; the entries put on     *)
(* pending and the claims made always balance, so no entry is handed out   *)
(* twice.                                                                  *)
C2_ClaimStep ==
    \A w \in Workers :
        /\ (pc[w] = "claim" /\ pc'[w] = "parse") =>
               /\ pending # <<>>
               /\ result'[w] = pending[Len(pending)]
               /\ pending' = SubSeq(pending, 1, Len(pending) - 1)
               /\ processing' = <<result'[w]>> \o processing
               /\ \A v \in Workers \ {w} :
                      pc'[v] = pc[v] /\ result'[v] = result[v]
        /\ (result'[w] = Nil /\ result[w] # Nil) =>
               /\ pc[w] = "claim"
               /\ pending = <<>>
               /\ UNCHANGED <<queueVars, pc>>

C2_ClaimsBalance ==
    claimCount + Len(pending) = Len(initial) + Len(requeued)

C2_AtomicClaim == []C2_ClaimsBalance /\ [][C2_ClaimStep]_vars

C2_Witness ==
    \E w \in Workers : \E v \in Workers \ {w} :
        /\ Len(initial) = 1
        /\ claimCount = 1
        /\ pc[w] = "parse"
        /\ result[w] = initial[1]
        /\ processing = <<initial[1]>>
        /\ result[v] = Nil

(* C3: no entry is on more than one of pending, processing and failed.     *)
C3_NoEntryOnTwoLists ==
    /\ Elems(pending) \cap Elems(processing) = {}
    /\ Elems(pending) \cap Elems(failed) = {}
    /\ Elems(processing) \cap Elems(failed) = {}

(* C4: a job whose attempt fails with retries left reappears on pending    *)
(* exactly once, not before its backoff delay has elapsed, with            *)
(* retryCount one higher and every other field as it was.  Stated on the   *)
(* pushes onto pending: the retry of an inline failure is pushed at most   *)
(* once, is not pushed while its delay is still running, and every pushed  *)
(* entry of that job and retry number is that retry.                       *)
C4_OneRetryAfterBackoff ==
    \A e \in inlineRetried :
        LET r == RetryEntry(Unmarshal(e).job)
        IN  /\ Count(requeued, r) <= 1
            /\ \A t \in BagToSet(timers) :
                   (t.entry = r /\ now < t.due) => Count(requeued, r) = 0
            /\ \A i \in DOMAIN requeued :
                   (requeued[i].id = e.id
                        /\ requeued[i].retryCount = e.retryCount + 1)
                   => /\ requeued[i].maxRetries = e.maxRetries
                      /\ requeued[i].createdAt = e.createdAt
                      /\ requeued[i].payload = e.payload

(* C5: a job whose attempt fails with no retries left has exactly one      *)
(* entry on the failed list and none on pending from then on.              *)
C5_ExhaustedJobFailsOnce ==
    \A e \in inlineExhausted :
        /\ CountId(failed, e.id) = 1
        /\ ~OnList(pending, e.id)

(* C6: every entry on a list or in a scheduled retry has                   *)
(* 0 <= retryCount <= maxRetries, and a step that creates a retry (a       *)
(* scheduled one, or the sweep's push) creates it with the retryCount of   *)
(* the entry it replaces plus one.                                         *)
AllEntries ==
    JobEntries(pending) \cup JobEntries(processing) \cup JobEntries(failed)
        \cup TimerEntries

C6_RetryCountBounded ==
    \A e \in AllEntries : 0 <= e.retryCount /\ e.retryCount <= e.maxRetries

\* copies of e waiting for a claim: on pending or in a timer
Waiting(pend, tims, e) ==
    Count(pend, e) + Cardinality({t \in BagToSet(tims) : t.entry = e})

\* the entries a worker holds or the sweep is about to visit
Held ==
    {result[w] : w \in Workers} \cup (IF snap = <<>> THEN {} ELSE {Head(snap)})

C6_RetryStep ==
    \A e \in JobEntries(pending') \cup {t.entry : t \in BagToSet(timers')} :
        (Cardinality(BagToSet(timers')) + Len(pending')
             > Cardinality(BagToSet(timers)) + Len(pending)
         /\ Waiting(pending', timers', e) > Waiting(pending, timers, e))
        => \E old \in Held :
               /\ old.kind = "json"
               /\ old.id = e.id
               /\ e.retryCount = old.retryCount + 1

C6_RetryCountInvariant == []C6_RetryCountBounded /\ [][C6_RetryStep]_vars

C6_Witness ==
    \E e \in JobEntries(pending) :
        /\ e.retryCount = e.maxRetries
        /\ e.retryCount > 0
        /\ e \in Elems(requeued)

(* C7: the delay computed for retry number k is min(2^k, 30) seconds,      *)
(* for every k.                                                            *)
C7_DelayIsMinPow2Cap ==
    bdelay # <<>> => bdelay[1] = MinPow2Cap(bk)

(* C8: a stale entry that is still on processing when the sweep reaches it *)
(* is removed from processing and handled as by an inline Fail Attempt.    *)
SweepReaches(jobJSON) ==
    /\ snap # <<>>
    /\ snap' = Tail(snap)
    /\ crashes' = crashes
    /\ jobJSON = Head(snap)
    /\ Unmarshal(jobJSON).ok
    /\ IsStale(Unmarshal(jobJSON).job)
    /\ jobJSON \in Elems(processing)

\* what handleJobFailure does to the queue and the table
InlineEffect(job, jobJSON) ==
    /\ processing' = LRem(processing, jobJSON)
    /\ db'[job.ConversionID].retry_count =
           db[job.ConversionID].retry_count + 1
    /\ IF ShouldRetry(job)
       THEN /\ \E d \in BackoffOutcomes(job.RetryCount + 1) :
                   timers' = timers (+) SetToBag({Timer(RetryEntry(job), d)})
            /\ UNCHANGED <<pending, failed>>
       ELSE /\ failed' = LPush(failed, jobJSON)
            /\ db'[job.ConversionID].status = "failed"
            /\ db'[job.ConversionID].error_message # ""
            /\ UNCHANGED <<pending, timers>>

SweepEffect(job, jobJSON) ==
    /\ processing' = LRem(processing, jobJSON)
    /\ timers' = timers
    /\ IF ShouldRetry(job)
       THEN /\ pending' = LPush(pending, RetryEntry(job))
            /\ db'[job.ConversionID].retry_count =
                   db[job.ConversionID].retry_count + 1
            /\ db'[job.ConversionID].status = db[job.ConversionID].status
            /\ UNCHANGED failed
       ELSE /\ failed' = LPush(failed, jobJSON)
            /\ db'[job.ConversionID].retry_count =
                   db[job.ConversionID].retry_count
            /\ db'[job.ConversionID].status = "failed"
            /\ db'[job.ConversionID].error_message = StaleMessage
            /\ UNCHANGED pending

ScenarioJob == Unmarshal(initial[1]).job

NthRetry(k) == Marshal([ScenarioJob EXCEPT !.RetryCount = k])

C9_RetryScenario ==
    LET id == ScenarioJob.ConversionID
        M  == ScenarioJob.MaxRetries
        n  == Len(requeued)
    IN  /\ attempts[id] <= M + 1
        /\ n <= M
        /\ \A k \in 1..n : requeued[k] = NthRetry(k)
        /\ now >= 2 ^ (n + 1) - 2
        /\ OnList(failed, id) =>
               /\ attempts[id] = M + 1
               /\ n = M
               /\ failed = <<IF M = 0 THEN initial[1] ELSE NthRetry(M)>>
               /\ db[id].status = "failed"
               /\ db[id].error_message \in FailureReasons
               /\ pending = <<>> /\ processing = <<>> /\ timers = EmptyBag
               /\ \A w \in Workers : pc[w] = "claim"

(* C10: a claimed entry that cannot be decoded is removed from processing  *)
(* and dropped: pending and failed stay as they are, no retry is           *)
(* scheduled, no retry counter and no status is written, and the worker    *)
(* is back at its claim.                                                   *)
C10_DecodeFailStep ==
    \A w \in Workers :
        (pc[w] = "parse" /\ ~Unmarshal(result[w]).ok /\ pc'[w] # pc[w]) =>
            \/ crashes' # crashes
            \/ /\ pc'[w] = "claim"
               /\ Len(processing') = Len(processing) - 1
               /\ Count(processing', result[w])
                      = Count(processing, result[w]) - 1
               /\ UNCHANGED <<pending, failed, timers, db, statusHash,
                              requeued, attempts>>

C10_PoisonDropped == [][C10_DecodeFailStep]_vars

C10_Witness ==
    /\ Garbage \in Elems(initial)
    /\ crashes = 0
    /\ Garbage \notin Elems(pending) \cup Elems(processing) \cup Elems(failed)
    /\ \A w \in Workers : pc[w] = "claim"

(* C11: an entry that lacks a required field goes the way of an           *)
(* undecodable one: it is never processed, never retried and never pushed  *)
(* to the failed list.                                                     *)
C11_PartialEntryRejected ==
    \A e \in Elems(initial) :
        e.form = "partial" =>
            /\ attempts[e.id] = 0
            /\ ~OnList(failed, e.id)
            /\ \A i \in DOMAIN requeued : requeued[i].id # e.id
            /\ \A t \in TimerEntries : t.id # e.id

(* C12: after a shutdown request an attempt in flight still runs to its   *)
(* end: when its download, convert and upload have all succeeded the job   *)
(* settles as completed.  Stated on the step by which a worker leaves an   *)
(* attempt without a failure: it writes the status completed.              *)
C12_InFlightAttemptCompletes ==
    [][\A w \in Workers :
           (/\ pc[w] = "attempt"
            /\ pc'[w] = "claim"
            /\ UNCHANGED <<timers, failed, inlineRetried, inlineExhausted>>)
           => LET id == Unmarshal(result[w]).job.ConversionID
              IN  /\ db'[id].status = "completed"
                  /\ statusHash'[id] = "completed"]_vars

(* C13: once cancel() has been called no entry moves from pending to       *)
(* processing any more.                                                    *)
C13_NoClaimAfterCancel ==
    [][ctxDone =>
           ~(/\ Len(pending') = Len(pending) - 1
             /\ Len(processing') = Len(processing) + 1)]_vars

(* C14: when the process dies, every job that was claimed and has not      *)
(* settled (not completed, not on failed, not back on pending) is on the   *)
(* processing list; none lives in process memory only.                     *)
C14_UnsettledJobsOnProcessingAtCrash ==
    [][crashes' # crashes =>
           \A id \in EnqueuedIds :
               (/\ attempts[id] > 0
                /\ db[id].status # "completed"
                /\ ~OnList(failed, id)
                /\ ~OnList(pending, id))
               => OnList(processing, id)]_vars

(* C15: a retry's delay never holds a worker up.  The step that ends an   *)
(* attempt puts the worker back at its claim at once, with no time passed  *)
(* and nothing pushed to pending; and a worker at its claim can claim      *)
(* whenever pending holds an entry, whatever timers are running.           *)
C15_AttemptEndStep ==
    \A w \in Workers :
        (pc[w] = "attempt" /\ pc'[w] # "attempt" /\ crashes' = crashes) =>
            /\ pc'[w] = "claim"
            /\ now' = now
            /\ pending' = pending

C15_ClaimNotHeldUp ==
    \A w \in Workers :
        (pc[w] = "claim" /\ pending # <<>>) => ENABLED Claim(w)

C15_BackoffDoesNotBlock ==
    []C15_ClaimNotHeldUp /\ [][C15_AttemptEndStep]_vars

C15_Witness ==
    \E t \in BagToSet(timers) : \E id \in JobIds \ {t.entry.id} :
        /\ now < t.due
        /\ crashes = 0
        /\ Len(initial) = 2
        /\ initial[2].id = t.entry.id
        /\ claimCount = 2
        /\ db[id].status = "completed"
        /\ \A w \in Workers : pc[w] = "claim"

(* C16: a status write that fails never changes what happens to the job  *)
(* in the queue.  With the database failing at any moment, every step of   *)
(* an attempt does to pending, processing, failed and the timers what it   *)
(* does when every write succeeds: the start of the attempt touches none   *)
(* of them, and its end removes the claimed entry from processing and      *)
(* either stops there (success), schedules the retry entry, or pushes the  *)
(* claimed entry to failed.                                                *)
C16_AttemptStep ==
    \A w \in Workers :
        LET e   == result[w]
            job == Unmarshal(e).job
        IN  /\ (pc[w] = "parse" /\ Unmarshal(e).ok /\ pc'[w] # pc[w]) =>
                   /\ pc'[w] = "attempt"
                   /\ UNCHANGED <<queueVars, timers>>
            /\ (pc[w] = "attempt" /\ pc'[w] # pc[w]) =>
                   /\ pc'[w] = "claim"
                   /\ processing' = LRem(processing, e)
                   /\ pending' = pending
                   /\ \/ timers' = timers /\ failed' = failed
                      \/ /\ ShouldRetry(job)
                         /\ failed' = failed
                         /\ \E d \in BackoffOutcomes(job.RetryCount + 1) :
                                timers' = timers (+)
                                    SetToBag({Timer(RetryEntry(job), d)})
                      \/ /\ ~ShouldRetry(job)
                         /\ timers' = timers
                         /\ failed' = LPush(failed, e)

C16_StoreFailuresDoNotSteer == [][C16_AttemptStep]_vars

C16_Witness ==
    \E e \in inlineExhausted :
        /\ dbDown
        /\ attempts[e.id] > 0
        /\ OnList(failed, e.id)
        /\ db[e.id] = InitialRow

(* C17: when download, convert and upload have all succeeded, the status  *)
(* is written as completed with the output location, the claimed entry is  *)
(* removed from processing by its exact value, pending and failed are not  *)
(* touched, and afterwards the job is on none of the three lists.          *)
C17_SuccessEffect ==
    \A w \in Workers :
        (/\ pc[w] = "attempt"
         /\ pc'[w] = "claim"
         /\ crashes' = crashes
         /\ UNCHANGED <<timers, failed>>) =>
            LET job == Unmarshal(result[w]).job
                id  == job.ConversionID
            IN  /\ db'[id].status = "completed"
                /\ db'[id].output_s3_path = OutputPath(job)
                /\ processing' = LRem(processing, result[w])
                /\ UNCHANGED <<pending, failed>>

C17_SuccessStep ==
    \A w \in Workers :
        (/\ pc[w] = "attempt"
         /\ pc'[w] = "claim"
         /\ crashes' = crashes
         /\ UNCHANGED <<timers, failed>>) =>
            LET id == Unmarshal(result[w]).job.ConversionID
            IN  /\ C17_SuccessEffect
                /\ ~OnList(pending', id)
                /\ ~OnList(processing', id)
                /\ ~OnList(failed', id)

C17_SuccessSettlesJob == [][C17_SuccessStep]_vars

(* C18: on the retries-exhausted branch, inline or in the sweep, the      *)
(* entry pushed to the failed list is the claimed entry itself, byte for   *)
(* byte, and no retry is scheduled for it.  Stated on every step that      *)
(* changes the failed list: it pushes one entry, an entry a worker holds   *)
(* or the sweep is visiting, whose retries are used up, and it touches     *)
(* neither pending nor the timers.                                         *)
C18_FailedPushStep ==
    failed' # failed =>
        \E e \in Held :
            /\ e.kind = "json"
            /\ ~ShouldRetry(Unmarshal(e).job)
            /\ failed' = LPush(failed, e)
            /\ UNCHANGED <<pending, timers>>

C18_FailedEntryIsOriginal == [][C18_FailedPushStep]_vars

C18_Witness ==
    \E e \in inlineExhausted :
        /\ e.form = "producer"
        /\ crashes = 0
        /\ failed = <<e>>
        /\ pending = <<>>
        /\ timers = EmptyBag

(* C19: the sweep recovers only jobs stuck on processing for more than     *)
(* five minutes: an entry that a worker claimed less than five minutes ago *)
(* and is processing is not removed from processing by the sweep.  Every   *)
(* claim of the window is younger than five minutes.                       *)
C19_SweepStep ==
    (snap # <<>> /\ snap' = Tail(snap) /\ crashes' = crashes) =>
        \A w \in Workers :
            (pc[w] \in {"parse", "attempt"}
                 /\ Count(processing, result[w]) = 1)
            => Count(processing', result[w]) = 1

C19_SweepSparesLiveJobs == [][C19_SweepStep]_vars

(* C20: the durable retry counter of a job goes up by exactly one in every *)
(* Fail Attempt, inline or by the sweep, on the retry branch or on the     *)
(* exhausted one, and is changed by no other step.                         *)
InlineFailOf(id) ==
    \E w \in Workers :
        /\ pc[w] = "attempt"
        /\ pc'[w] = "claim"
        /\ crashes' = crashes
        /\ Unmarshal(result[w]).job.ConversionID = id
        /\ (timers' # timers \/ failed' # failed)

SweepFailOf(id) ==
    /\ snap # <<>>
    /\ snap' = Tail(snap)
    /\ crashes' = crashes
    /\ Unmarshal(Head(snap)).ok
    /\ IsStale(Unmarshal(Head(snap)).job)
    /\ Unmarshal(Head(snap)).job.ConversionID = id

C20_CounterStep ==
    \A id \in JobIds :
        db'[id].retry_count =
            db[id].retry_count
                + (IF InlineFailOf(id) \/ SweepFailOf(id) THEN 1 ELSE 0)

C20_EveryFailAttemptCounts == [][C20_CounterStep]_vars

(* C21: the sweep acts on a snapshot entry only if its remove-by-value    *)
(* removed it: when the stale entry is no longer on processing, the sweep  *)
(* pushes nothing to pending or failed and writes no status for it.        *)
C21_SweepStep ==
    (/\ snap # <<>>
     /\ snap' = Tail(snap)
     /\ crashes' = crashes
     /\ Unmarshal(Head(snap)).ok
     /\ IsStale(Unmarshal(Head(snap)).job)
     /\ Head(snap) \notin Elems(processing))
    => UNCHANGED <<pending, failed, db, statusHash>>

C21_SweepSkipsHandledEntry == [][C21_SweepStep]_vars

(* C22: there is at most one live copy of each conversionId, counting the  *)
(* entries on pending, processing and failed and the scheduled retries,    *)
(* and no conversionId is with two workers at once.                        *)
LiveCopies(id) ==
    CountId(pending, id) + CountId(processing, id) + CountId(failed, id)
        + BagCardinality(
              [t \in {u \in BagToSet(timers) : u.entry.id = id}
                   |-> CopiesIn(t, timers)])

Processing(id) ==
    {w \in Workers : /\ pc[w] \in {"parse", "attempt"}
                     /\ Unmarshal(result[w]).ok
                     /\ Unmarshal(result[w]).job.ConversionID = id}

C22_OneLiveCopy ==
    \A id \in EnqueuedIds :
        /\ LiveCopies(id) <= 1
        /\ Cardinality(Processing(id)) <= 1

(* C23: terminal statuses are stable: a row that is completed or failed    *)
(* keeps that status in every later step.                                  *)
C23_TerminalStep ==
    \A id \in JobIds :
        db[id].status \in {"completed", "failed"} =>
            db'[id].status = db[id].status

C23_TerminalStatusStable == [][C23_TerminalStep]_vars

(* C24: the status row never reports a terminal state that the queue or  *)
(* the attempt does not back: while a row is failed an entry of that       *)
(* conversionId is on the failed list, and a row becomes completed only in *)
(* the step of a worker whose download, convert and upload of that job     *)
(* have succeeded.                                                         *)
C24_FailedIsBacked ==
    \A id \in JobIds : db[id].status = "failed" => OnList(failed, id)

C24_CompletedStep ==
    \A id \in JobIds :
        (db'[id].status = "completed" /\ db[id].status # "completed") =>
            \E w \in Workers :
                /\ pc[w] = "attempt"
                /\ pc'[w] = "claim"
                /\ Unmarshal(result[w]).job.ConversionID = id
                /\ UNCHANGED <<timers, failed, inlineRetried, inlineExhausted>>

SweepVisit == snap # <<>> /\ snap' = Tail(snap) /\ crashes' = crashes

C25_SweepFrame ==
    SweepVisit =>
        /\ \A e \in Elems(processing) :
               (~Unmarshal(e).ok \/ ~IsStale(Unmarshal(e).job))
               => Count(processing', e) = Count(processing, e)
        /\ \A e \in Elems(processing') :
               Count(processing', e) <= Count(processing, e)
        /\ \/ pending' = pending
           \/ \E e \in AllEntries' : pending' = LPush(pending, e)
        /\ \/ failed' = failed
           \/ \E e \in AllEntries' : failed' = LPush(failed, e)

C25_SweepStep ==
    SweepVisit =>
        /\ C25_SweepFrame
        /\ (Len(pending') - Len(pending)) + (Len(failed') - Len(failed))
               = Len(processing) - Len(processing')

C25_SweepOnlyMovesStaleEntries == [][C25_SweepStep]_vars

=============================================================================
